---- MODULE Spec2Model ----
(***************************************************************************)
(* Model of the Spotify listening-history pipeline:                        *)
(*   scripts/supabase_store.py          save_response and its helpers      *)
(*   scripts/fetch_history.py           the fetch-and-store command        *)
(*   scripts/backfill_artist_metadata.py  the backfill command             *)
(*                                                                         *)
(* A Python value that may be None is modelled as a sequence of length 0   *)
(* (None) or 1 (the value), so that "is None" is a comparison with <<>>.   *)
(***************************************************************************)
EXTENDS Integers, Sequences, FiniteSets, TLC

VARIABLES raw, artists, plays, clock, run

vars == <<raw, artists, plays, clock, run>>

(***************************************************************************)
(* Bounds of the model.                                                    *)
(***************************************************************************)
MaxItems == 2       \* items of one history response
MaxClock == 2       \* number of command runs in one behaviour
MaxIds == 101       \* length of the id list given to the metadata fetcher
MaxPlayItems == 2   \* items of one response in the play-event model
MaxImages == 3      \* images of one upstream entity

(***************************************************************************)
(* Program constants.                                                      *)
(***************************************************************************)
batch_size == 50

None == <<>>
Some(v) == <<v>>

Min(a, b) == IF a < b THEN a ELSE b

Range(s) == {s[i] : i \in DOMAIN s}

\* every sequence that lists the members of S once
Orderings(S) == {s \in [1..Cardinality(S) -> S] : Range(s) = S}

RECURSIVE Concat(_)
Concat(ss) == IF ss = <<>> THEN <<>> ELSE Head(ss) \o Concat(Tail(ss))

ArtistIds == {1, 2}

(***************************************************************************)
(* Upstream artist entities (the dicts of the "artists" array of a batch   *)
(* lookup).  A key that is absent from the dict is None.                   *)
(***************************************************************************)
Image(u, h) == [url |-> Some(u), height |-> h]

\* the entity the catalogue returns for id i, by kind: complete, without
\* images, genres, popularity and url, or without an id
Entity(i, kind) ==
    CASE kind = "full" ->
            [id |-> Some(i), name |-> Some(1),
             images |-> <<Image(1, Some(64)), Image(2, Some(300))>>,
             spotify |-> Some(1), genres |-> Some(<<1, 2>>),
             popularity |-> Some(50)]
      [] kind = "bare" ->
            [id |-> Some(i), name |-> Some(2), images |-> <<>>,
             spotify |-> None, genres |-> None, popularity |-> None]
      [] kind = "noid" ->
            [id |-> None, name |-> Some(1),
             images |-> <<Image(1, Some(64))>>,
             spotify |-> Some(1), genres |-> Some(<<1>>),
             popularity |-> Some(50)]

\* client.artists(batch): call number n of the run fails when n \in up.fail,
\* and otherwise returns the entities of the batch in request order
Lookup(kind, batch) == [i \in DOMAIN batch |-> Entity(batch[i], kind[batch[i]])]

client_artists(up, n, batch) ==
    IF n \in up.fail
    THEN [ok |-> FALSE, artists |-> <<>>]
    ELSE [ok |-> TRUE, artists |-> Lookup(up.kind, batch)]

(***************************************************************************)
(* parse_artist_data                                                       *)
(***************************************************************************)
\* key=lambda x: x.get("height", 0) or 0
HeightKey(img) == IF img.height = None THEN 0 ELSE img.height[1]

\* sorted(images, key=HeightKey, reverse=True): stable, so images of equal
\* height keep their input order
\* variant: an image goes before the images of its own height
RECURSIVE InsertDesc_unstable(_, _)
InsertDesc_unstable(img, sorted) ==
    IF sorted = <<>> THEN <<img>>
    ELSE IF HeightKey(Head(sorted)) > HeightKey(img)
         THEN <<Head(sorted)>> \o InsertDesc_unstable(img, Tail(sorted))
         ELSE <<img>> \o sorted

RECURSIVE InsertDesc(_, _)
InsertDesc(img, sorted) ==
    IF sorted = <<>> THEN <<img>>
    ELSE IF HeightKey(Head(sorted)) >= HeightKey(img)
         THEN <<Head(sorted)>> \o InsertDesc(img, Tail(sorted))
         ELSE <<img>> \o sorted

RECURSIVE SortedImages(_)
SortedImages(images) ==
    IF images = <<>> THEN <<>>
    ELSE InsertDesc(images[Len(images)],
                    SortedImages(SubSeq(images, 1, Len(images) - 1)))

\* variant: genres read without a default, artist.get("genres")
parse_artist_data_nodefault(artist) ==
    [artist_id   |-> artist.id,
     artist_name |-> artist.name,
     image_url   |-> IF artist.images = <<>> THEN None
                     ELSE SortedImages(artist.images)[1].url,
     spotify_url |-> artist.spotify,
     genres      |-> artist.genres,
     popularity  |-> artist.popularity]

parse_artist_data(artist) ==
    [artist_id   |-> artist.id,
     artist_name |-> artist.name,
     image_url   |-> IF artist.images = <<>> THEN None
                     ELSE SortedImages(artist.images)[1].url,
     spotify_url |-> artist.spotify,
     genres      |-> IF artist.genres = None THEN Some(<<>>) ELSE artist.genres,
     popularity  |-> artist.popularity]

(***************************************************************************)
(* fetch_artist_metadata                                                   *)
(***************************************************************************)
\* the inner "for artist in artists" loop: parsed records that carry an id
HasId(parsed) == parsed.artist_id # None

ParsedWithId(ents) ==
    SelectSeq([i \in DOMAIN ents |-> parse_artist_data(ents[i])], HasId)

NoFetch == [calls |-> <<>>, replies |-> <<>>, all_artists |-> <<>>]

\* variant: the loop ends at the first batch whose lookup fails
RECURSIVE FetchLoop_break(_, _, _, _, _)
FetchLoop_break(up, artist_ids, i, base, acc) ==
    IF i >= Len(artist_ids) THEN acc
    ELSE LET batch == SubSeq(artist_ids, i + 1, Min(i + batch_size, Len(artist_ids)))
             reply == client_artists(up, base + Len(acc.calls) + 1, batch)
             next == [calls       |-> Append(acc.calls, batch),
                      replies     |-> Append(acc.replies, reply),
                      all_artists |-> IF reply.ok
                                      THEN acc.all_artists \o ParsedWithId(reply.artists)
                                      ELSE acc.all_artists]
         IN  IF reply.ok
             THEN FetchLoop_break(up, artist_ids, i + batch_size, base, next)
             ELSE next

\* the "for i in range(0, len(artist_ids), batch_size)" loop from offset i;
\* base = number of upstream calls the run made before this invocation
RECURSIVE FetchLoop(_, _, _, _, _)
FetchLoop(up, artist_ids, i, base, acc) ==
    IF i >= Len(artist_ids) THEN acc
    ELSE LET batch == SubSeq(artist_ids, i + 1, Min(i + batch_size, Len(artist_ids)))
             reply == client_artists(up, base + Len(acc.calls) + 1, batch)
         IN  FetchLoop(up, artist_ids, i + batch_size, base,
                 [calls       |-> Append(acc.calls, batch),
                  replies     |-> Append(acc.replies, reply),
                  all_artists |-> IF reply.ok
                                  THEN acc.all_artists \o ParsedWithId(reply.artists)
                                  ELSE acc.all_artists])

\* variant: one lookup call with the whole list
fetch_artist_metadata_nochunk(up, artist_ids, base) ==
    IF artist_ids = <<>> THEN NoFetch
    ELSE LET reply == client_artists(up, base + 1, artist_ids)
         IN  [calls |-> <<artist_ids>>, replies |-> <<reply>>,
              all_artists |-> IF reply.ok THEN ParsedWithId(reply.artists) ELSE <<>>]

fetch_artist_metadata(up, artist_ids, base) ==
    IF artist_ids = <<>> THEN NoFetch
    ELSE FetchLoop(up, artist_ids, 0, base, NoFetch)

(***************************************************************************)
(* History responses.  An item's "artists" is the list of the track's      *)
(* artists, each with an id and a name that may be missing.                *)
(***************************************************************************)
Opt(S) == {None} \cup {Some(v) : v \in S}

Artist(i, n) == [id |-> i, name |-> n]

\* the artist lists of the store-level model: no artist, a first artist
\* without an id, artist 1 under two names, artist 2 without a name, and
\* artist 2 followed by a second artist
ArtistLists ==
    {<<>>,
     <<Artist(None, Some(1))>>,
     <<Artist(Some(1), Some(1))>>,
     <<Artist(Some(1), Some(2))>>,
     <<Artist(Some(2), None)>>,
     <<Artist(Some(2), Some(1)), Artist(Some(1), Some(1))>>}

SeqsUpTo(S, n) == UNION {[1..k -> S] : k \in 0..n}

Item(p, t, as) == [played_at |-> p, track_name |-> t, artists |-> as]

ArtistItems == {Item(Some(1), Some(1), as) : as \in ArtistLists}

ArtistResponses == {[items |-> s] : s \in SeqsUpTo(ArtistItems, MaxItems)}

(***************************************************************************)
(* extract_artist_ids                                                      *)
(***************************************************************************)
RECURSIVE ExtractLoop(_, _)
ExtractLoop(items, artist_ids) ==
    IF items = <<>> THEN artist_ids
    ELSE LET as == Head(items).artists
         IN  ExtractLoop(Tail(items),
                 IF as # <<>> /\ as[1].id # None
                 THEN artist_ids \cup {as[1].id[1]}
                 ELSE artist_ids)

extract_artist_ids(response) == ExtractLoop(response.items, {})

(***************************************************************************)
(* The store.  A statement that fails leaves the transaction aborted: the  *)
(* statements after it in the same transaction fail too, and nothing the   *)
(* transaction wrote is kept (psycopg.connect(..., autocommit=False)).     *)
(***************************************************************************)
get_existing_artist_ids(tbl) == DOMAIN tbl

\* variant: the conflict branch overwrites first_seen_at as well
UpsertRow_replace(tbl, a, now) ==
    (a.artist_id[1] :> [artist_name |-> a.artist_name,
                        image_url |-> a.image_url,
                        spotify_url |-> a.spotify_url,
                        genres |-> a.genres,
                        popularity |-> a.popularity,
                        first_seen_at |-> now,
                        last_updated_at |-> now,
                        updated_at |-> now]) @@ tbl

\* one execute() of the INSERT ... ON CONFLICT (artist_id) DO UPDATE
UpsertRow(tbl, a, now) ==
    LET k == a.artist_id[1]
    IN  IF k \in DOMAIN tbl
        THEN [tbl EXCEPT ![k] = [@ EXCEPT !.artist_name = a.artist_name,
                                          !.image_url = a.image_url,
                                          !.spotify_url = a.spotify_url,
                                          !.genres = a.genres,
                                          !.popularity = a.popularity,
                                          !.last_updated_at = now,
                                          !.updated_at = now]]
        ELSE tbl @@ (k :> [artist_name |-> a.artist_name,
                           image_url |-> a.image_url,
                           spotify_url |-> a.spotify_url,
                           genres |-> a.genres,
                           popularity |-> a.popularity,
                           first_seen_at |-> now,
                           last_updated_at |-> now,
                           updated_at |-> now])

\* the first n execute() calls of the "for artist in artists" loop
RECURSIVE UpsertLoop(_, _, _, _)
UpsertLoop(tbl, arts, n, now) ==
    IF n = 0 THEN tbl
    ELSE UpsertRow(UpsertLoop(tbl, arts, n - 1, now), arts[n], now)

\* upsert_artists: statement number failAt (0 = none) raises a store error,
\* after the statements before it were executed
upsert_artists(tbl, arts, now, failAt) ==
    IF failAt \in DOMAIN arts
    THEN [tbl |-> UpsertLoop(tbl, arts, failAt - 1, now), ok |-> FALSE]
    ELSE [tbl |-> UpsertLoop(tbl, arts, Len(arts), now), ok |-> TRUE]

\* json.dumps(response): the serialised dict, key by key
json_dumps(response) == [items |-> response.items]

\* variant: the payload is stored only if the log does not hold it yet
insert_raw_payload_dedup(log, response, now) ==
    IF \E i \in DOMAIN log : log[i].payload = json_dumps(response) THEN log
    ELSE Append(log, [collected_at |-> now, payload |-> json_dumps(response)])

_insert_raw_payload(log, response, now) ==
    Append(log, [collected_at |-> now, payload |-> json_dumps(response)])

(***************************************************************************)
(* Inputs of a run: the fault injected into it and the upstream's answers. *)
(***************************************************************************)
Fault(step, n) == [step |-> step, n |-> n]

NoFault == Fault("none", 0)

Kinds == {"full", "bare", "noid"}

AllFull == [fail |-> {}, kind |-> [i \in ArtistIds |-> "full"]]

\* the upstream behaviours that differ on the ids S a run may look up: the
\* first call fails, or every call answers with entities of the given kinds
UpstreamsFor(S) ==
    {[fail |-> {1}, kind |-> AllFull.kind]}
    \cup {[fail |-> {}, kind |-> [i \in ArtistIds |-> IF i \in S THEN k[i] ELSE "full"]]
            : k \in [S -> Kinds]}

\* a run meets one trouble at a time: a store fault, or an upstream that
\* fails or answers with incomplete entities
Troubles(faults, S) ==
    {[fault |-> NoFault, up |-> u] : u \in UpstreamsFor(S)}
    \cup {[fault |-> f, up |-> AllFull] : f \in faults \ {NoFault}}

\* what a run observed and how it ended
NoRun ==
    [kind |-> "none", now |-> 0, response |-> None, dry_run |-> FALSE,
     fault |-> NoFault, fetched |-> FALSE, fetch_ids |-> <<>>,
     calls |-> <<>>, replies |-> <<>>, all_artists |-> <<>>,
     added |-> 0, updated |-> 0,
     store_error |-> FALSE,
     committed |-> FALSE, raised |-> FALSE, exit |-> 0, message |-> FALSE]

(***************************************************************************)
(* save_response(response, spotify_client)                                 *)
(***************************************************************************)
\* variant: every referenced id is looked up, present or not
NewArtistIds_nodiff(tbl, response) == extract_artist_ids(response)

\* artist_ids - existing_ids
NewArtistIds(tbl, response) ==
    extract_artist_ids(response) \ get_existing_artist_ids(tbl)

\* variant: the connection is in autocommit mode, so a failed statement
\* aborts nothing and every statement that succeeded is kept
save_response_autocommit(db, response, configured, up, fault, order, now) ==
    LET artist_ids == extract_artist_ids(response)
        selected   == artist_ids # {}
        selectOk   == fault.step # "select"
        new_artist_ids == order
        fetched    == selected /\ selectOk /\ new_artist_ids # <<>>
        f          == IF fetched THEN fetch_artist_metadata(up, new_artist_ids, 0)
                      ELSE NoFetch
        u          == IF f.all_artists # <<>>
                      THEN upsert_artists(db.artists, f.all_artists, now,
                               IF fault.step = "upsert" THEN fault.n ELSE 0)
                      ELSE [tbl |-> db.artists, ok |-> TRUE]
        \* the inner "except Exception" swallowed a store error
        aborted    == (selected /\ ~selectOk) \/ ~u.ok
        inserted   == fault.step # "insert"
        committed  == inserted
    IN  IF ~configured \/ fault.step = "connect"
        THEN [raw |-> db.raw, artists |-> db.artists, raised |-> TRUE,
              store_error |-> configured,
              committed |-> FALSE, fetched |-> FALSE, fetch_ids |-> <<>>,
              calls |-> <<>>, replies |-> <<>>, all_artists |-> <<>>]
        ELSE [raw |-> IF committed THEN _insert_raw_payload(db.raw, response, now)
                      ELSE db.raw,
              artists |-> IF committed THEN u.tbl ELSE db.artists,
              raised |-> ~committed,
              store_error |-> aborted \/ fault.step \in {"insert", "commit"},
              committed |-> committed,
              fetched |-> fetched,
              fetch_ids |-> IF fetched THEN new_artist_ids ELSE <<>>,
              calls |-> f.calls, replies |-> f.replies,
              all_artists |-> f.all_artists]

\* order = list(artist_ids - existing_ids), one of the orderings of that set
save_response(db, response, configured, up, fault, order, now) ==
    LET artist_ids == extract_artist_ids(response)
        selected   == artist_ids # {}
        selectOk   == fault.step # "select"
        new_artist_ids == order
        fetched    == selected /\ selectOk /\ new_artist_ids # <<>>
        f          == IF fetched THEN fetch_artist_metadata(up, new_artist_ids, 0)
                      ELSE NoFetch
        u          == IF f.all_artists # <<>>
                      THEN upsert_artists(db.artists, f.all_artists, now,
                               IF fault.step = "upsert" THEN fault.n ELSE 0)
                      ELSE [tbl |-> db.artists, ok |-> TRUE]
        \* the inner "except Exception" swallowed a store error
        aborted    == (selected /\ ~selectOk) \/ ~u.ok
        inserted   == ~aborted /\ fault.step # "insert"
        committed  == inserted /\ fault.step # "commit"
    IN  IF ~configured \/ fault.step = "connect"
        THEN [raw |-> db.raw, artists |-> db.artists, raised |-> TRUE,
              store_error |-> configured,
              committed |-> FALSE, fetched |-> FALSE, fetch_ids |-> <<>>,
              calls |-> <<>>, replies |-> <<>>, all_artists |-> <<>>]
        ELSE [raw |-> IF committed THEN _insert_raw_payload(db.raw, response, now)
                      ELSE db.raw,
              artists |-> IF committed THEN u.tbl ELSE db.artists,
              raised |-> ~committed,
              store_error |-> aborted \/ fault.step \in {"insert", "commit"},
              committed |-> committed,
              fetched |-> fetched,
              fetch_ids |-> IF fetched THEN new_artist_ids ELSE <<>>,
              calls |-> f.calls, replies |-> f.replies,
              all_artists |-> f.all_artists]

(***************************************************************************)
(* fetch_history.main with --save-supabase                                 *)
(***************************************************************************)
MainFaults ==
    {Fault(s, 0) : s \in {"none", "select", "insert", "commit", "connect"}}
    \cup {Fault("upsert", n) : n \in ArtistIds}

\* create_spotify_client exits, or fetch_recent_tracks raises
MainEarlyExit(step) ==
    /\ run' = [NoRun EXCEPT !.kind = "fetch", !.now = clock + 1,
                            !.fault = Fault(step, 0), !.exit = 1, !.message = TRUE]
    /\ UNCHANGED <<raw, artists>>

\* is_configured() is false: warn_missing_config, nothing saved
MainNotConfigured(response) ==
    /\ run' = [NoRun EXCEPT !.kind = "fetch", !.now = clock + 1,
                            !.response = Some(response), !.fault = Fault("config", 0),
                            !.message = TRUE]
    /\ UNCHANGED <<raw, artists>>

MainSave(response, up, fault, order) ==
    LET r == save_response([raw |-> raw, artists |-> artists], response, TRUE,
                           up, fault, order, clock + 1)
    IN  /\ raw' = r.raw
        /\ artists' = r.artists
        /\ run' = [NoRun EXCEPT !.kind = "fetch", !.now = clock + 1,
                                !.response = Some(response), !.fault = fault,
                                !.fetched = r.fetched, !.fetch_ids = r.fetch_ids,
                                !.calls = r.calls, !.replies = r.replies,
                                !.all_artists = r.all_artists,
                                !.store_error = r.store_error,
                                !.committed = r.committed, !.raised = r.raised,
                                !.message = r.raised]

FetchHistoryMain ==
    /\ clock < MaxClock
    /\ clock' = clock + 1
    /\ UNCHANGED plays
    /\ \/ \E step \in {"creds", "recent"} : MainEarlyExit(step)
       \/ \E response \in ArtistResponses : MainNotConfigured(response)
       \/ \E response \in ArtistResponses :
            \E t \in Troubles(MainFaults, NewArtistIds(artists, response)),
               order \in Orderings(NewArtistIds(artists, response)) :
                 MainSave(response, t.up, t.fault, order)

(***************************************************************************)
(* backfill_artist_metadata.py                                             *)
(***************************************************************************)
\* the first-artist (name, id) pairs of one payload that pass the WHERE
\* clauses of the history query
RECURSIVE ItemPairs(_)
ItemPairs(items) ==
    IF items = <<>> THEN {}
    ELSE LET as == Head(items).artists
         IN  (IF as # <<>> /\ as[1].id # None /\ as[1].name # None
              THEN {<<as[1].name[1], as[1].id[1]>>} ELSE {})
             \cup ItemPairs(Tail(items))

\* SELECT DISTINCT artist_name, artist_id over the whole raw-payload log
RECURSIVE HistoryPairs(_)
HistoryPairs(log) ==
    IF log = <<>> THEN {}
    ELSE ItemPairs(Head(log).payload.items) \cup HistoryPairs(Tail(log))

\* get_artists_from_listening_history: the pairs ORDER BY artist_name, in
\* any order among pairs of the same name
get_artists_from_listening_history(log) ==
    {h \in Orderings(HistoryPairs(log)) :
        \A i, j \in DOMAIN h : i < j => h[i][1] <= h[j][1]}

\* get_artists_missing_metadata (defined in the script, called nowhere)
get_artists_missing_metadata(tbl) ==
    {k \in DOMAIN tbl : \/ tbl[k].image_url = None
                        \/ tbl[k].genres = None
                        \/ tbl[k].popularity = None}

get_existing_artist_ids_and_names(tbl) == [k \in DOMAIN tbl |-> tbl[k].artist_name]

\* step 3: the ids to fetch, in the order of the history list
RECURSIVE ArtistIdsToFetch(_, _, _)
ArtistIdsToFetch(history_artists, existing_artists, tbl) ==
    IF history_artists = <<>> THEN <<>>
    ELSE LET artist_id == Head(history_artists)[2]
             rest == ArtistIdsToFetch(Tail(history_artists), existing_artists, tbl)
         IN  IF artist_id \notin DOMAIN existing_artists
             THEN <<artist_id>> \o rest
             ELSE IF \/ tbl[artist_id].image_url = None
                     \/ tbl[artist_id].genres = None
                     \/ tbl[artist_id].popularity = None
                  THEN <<artist_id>> \o rest
                  ELSE rest

\* how many of the fetched records are of artists absent from existing_artists
CountNew(arts, existing_artists) ==
    Cardinality({i \in DOMAIN arts : arts[i].artist_id[1] \notin DOMAIN existing_artists})

NoBatches ==
    [aborted |-> FALSE, calls |-> <<>>, replies |-> <<>>,
     all_artists |-> <<>>, added |-> 0, updated |-> 0]

\* step 4: the "for i in range(0, len(artist_ids_to_fetch), batch_size)" loop.
\* A store error in upsert_artists is caught by the loop's "except Exception"
\* and leaves the transaction aborted for the batches after it.  all_artists
\* collects the records handed to upsert_artists, batch after batch; the
\* rows they leave are computed where the transaction commits.
RECURSIVE BatchLoop(_, _, _, _, _, _, _)
BatchLoop(up, ids, i, existing_artists, now, failAt, acc) ==
    IF i >= Len(ids) THEN acc
    ELSE LET batch == SubSeq(ids, i + 1, Min(i + batch_size, Len(ids)))
             f == fetch_artist_metadata(up, batch, Len(acc.calls))
             ok == \/ f.all_artists = <<>>
                   \/ ~acc.aborted /\ failAt \notin DOMAIN f.all_artists
             new == CountNew(f.all_artists, existing_artists)
         IN  BatchLoop(up, ids, i + batch_size, existing_artists, now,
                 IF f.all_artists = <<>> THEN failAt ELSE 0,
                 [aborted |-> acc.aborted \/ ~ok,
                  calls |-> acc.calls \o f.calls,
                  replies |-> acc.replies \o f.replies,
                  all_artists |-> acc.all_artists \o f.all_artists,
                  added |-> IF ok THEN acc.added + new ELSE acc.added,
                  updated |-> IF ok THEN acc.updated + Len(f.all_artists) - new
                              ELSE acc.updated])

BackfillFaults ==
    {Fault(s, 0) : s \in {"none", "history", "existing", "rowselect", "commit", "connect"}}
    \cup {Fault("upsert", n) : n \in ArtistIds}

\* is_configured() is false, or create_spotify_client finds no credentials
BackfillEarlyExit(step, dry_run) ==
    /\ run' = [NoRun EXCEPT !.kind = "backfill", !.now = clock + 1, !.dry_run = dry_run,
                            !.fault = Fault(step, 0), !.exit = 1, !.message = TRUE]
    /\ UNCHANGED <<raw, artists>>

\* variant: the preview flag is not looked at
ReturnsBeforeFetch_nopreview(dry_run, artist_ids_to_fetch) ==
    artist_ids_to_fetch = <<>>

\* "if not artist_ids_to_fetch: return" and "if dry_run: ... return": the
\* run ends before step 4, having printed what it found
ReturnsBeforeFetch(dry_run, artist_ids_to_fetch) ==
    artist_ids_to_fetch = <<>> \/ dry_run

backfill_artists(dry_run, up, fault, history_artists) ==
    LET now == clock + 1
        existing_artists == get_existing_artist_ids_and_names(artists)
        artist_ids_to_fetch == ArtistIdsToFetch(history_artists, existing_artists, artists)
        \* a per-artist SELECT is issued for the history ids that have a row
        rowselects == \E i \in DOMAIN history_artists :
                          history_artists[i][2] \in DOMAIN existing_artists
        readError == \/ fault.step \in {"connect", "history", "existing"}
                     \/ fault.step = "rowselect" /\ rowselects
        b == BatchLoop(up, artist_ids_to_fetch, 0, existing_artists, now,
                       IF fault.step = "upsert" THEN fault.n ELSE 0, NoBatches)
        commitError == fault.step = "commit"
        base == [NoRun EXCEPT !.kind = "backfill", !.now = now, !.dry_run = dry_run,
                              !.fault = fault]
    IN  IF readError
        THEN /\ run' = [base EXCEPT !.store_error = TRUE, !.exit = 1, !.message = TRUE]
             /\ UNCHANGED <<raw, artists>>
        ELSE IF ReturnsBeforeFetch(dry_run, artist_ids_to_fetch)
        THEN /\ run' = [base EXCEPT !.fetch_ids = artist_ids_to_fetch]
             /\ UNCHANGED <<raw, artists>>
        ELSE /\ run' = [base EXCEPT !.fetch_ids = artist_ids_to_fetch,
                                    !.fetched = TRUE,
                                    !.calls = b.calls, !.replies = b.replies,
                                    !.all_artists = b.all_artists,
                                    !.added = b.added, !.updated = b.updated,
                                    !.store_error = b.aborted \/ commitError,
                                    !.committed = ~b.aborted /\ ~commitError,
                                    !.exit = IF commitError THEN 1 ELSE 0,
                                    !.message = commitError]
             /\ artists' = IF b.aborted \/ commitError THEN artists
                           ELSE upsert_artists(artists, b.all_artists, now, 0).tbl
             /\ UNCHANGED raw

Backfill ==
    /\ clock < MaxClock
    /\ clock' = clock + 1
    /\ UNCHANGED plays
    /\ \/ \E step \in {"config", "creds"}, dry_run \in BOOLEAN :
            BackfillEarlyExit(step, dry_run)
       \/ \E dry_run \in BOOLEAN,
             history_artists \in get_artists_from_listening_history(raw) :
            \E t \in Troubles(BackfillFaults, Range(ArtistIdsToFetch(history_artists,
                          get_existing_artist_ids_and_names(artists), artists))) :
                backfill_artists(dry_run, t.up, t.fault, history_artists)

StoreInit ==
    /\ raw = <<>>
    /\ artists = <<>>
    /\ plays = {}
    /\ clock = 0
    /\ run = NoRun

Init == StoreInit

Next == FetchHistoryMain \/ Backfill

Spec == Init /\ [][Next]_vars

(***************************************************************************)
(* The metadata fetcher and the backfill loop on their own, on id lists of *)
(* up to MaxIds ids.                                                       *)
(***************************************************************************)
\* the list n, n-1, .., 1 or 1, .., n
IdList(n, rev) == [i \in 1..n |-> IF rev THEN n + 1 - i ELSE i]

\* range(0, MaxIds, batch_size) has this many members
MaxCalls == (MaxIds + batch_size - 1) \div batch_size

\* the ids at the edges of the first batches
EdgeIds == {1, batch_size + 1}

\* any of the calls may fail; the entities of the edge ids may lack an id
FetchUpstreams ==
    {[fail |-> F, kind |-> [i \in 1..MaxIds |-> IF i \in S THEN "noid" ELSE "full"]]
        : F \in SUBSET (1..MaxCalls), S \in SUBSET EdgeIds}

FetchArtistMetadata ==
    /\ run.kind = "none"
    /\ \E n \in 0..MaxIds, rev \in BOOLEAN, up \in FetchUpstreams :
         LET f == fetch_artist_metadata(up, IdList(n, rev), 0)
         IN  run' = [NoRun EXCEPT !.kind = "fetch_artist_metadata",
                                  !.fetched = TRUE, !.fetch_ids = IdList(n, rev),
                                  !.calls = f.calls, !.replies = f.replies,
                                  !.all_artists = f.all_artists]
    /\ UNCHANGED <<raw, artists, plays, clock>>

BackfillBatches ==
    /\ run.kind = "none"
    /\ \E n \in 0..MaxIds, rev \in BOOLEAN, up \in FetchUpstreams :
         LET b == BatchLoop(up, IdList(n, rev), 0, <<>>, 1, 0, NoBatches)
         IN  run' = [NoRun EXCEPT !.kind = "backfill_loop",
                                  !.fetched = TRUE, !.fetch_ids = IdList(n, rev),
                                  !.calls = b.calls, !.replies = b.replies,
                                  !.all_artists = b.all_artists,
                                  !.added = b.added, !.updated = b.updated]
    /\ UNCHANGED <<raw, artists, plays, clock>>

NextFetch == FetchArtistMetadata \/ BackfillBatches

SpecFetch == Init /\ [][NextFetch]_vars

(***************************************************************************)
(* Play events.  The transformer and the play-event upsert are not among   *)
(* the three scripts; they are modelled from sections 4.2 and 4.5 of the   *)
(* specification, on a table of rows with the key played_at.               *)
(***************************************************************************)
\* the artists of track t: one artist, or three of which one has no name
TrackArtists(t) ==
    IF t = 1 THEN <<Artist(Some(1), Some(1))>>
    ELSE <<Artist(Some(1), Some(1)), Artist(Some(2), None), Artist(Some(2), Some(2))>>

PlayItems == {Item(p, Some(t), TrackArtists(t)) : p \in Opt({1, 2}), t \in {1, 2}}

PlayResponses == {[items |-> s] : s \in SeqsUpTo(PlayItems, MaxPlayItems)}

HasName(a) == a.name # None

\* the display names of the artists that have one, in order (joined by ", ")
ArtistNames(as) ==
    LET named == SelectSeq(as, HasName) IN [i \in DOMAIN named |-> named[i].name[1]]

PlayRow(item) ==
    [played_at |-> item.played_at[1], track_name |-> item.track_name,
     artist_names |-> ArtistNames(item.artists)]

HasPlayedAt(item) == item.played_at # None

\* one row per item that has a played_at; of the rows with the same
\* played_at only the last one is kept
transform(response) ==
    LET dated == SelectSeq(response.items, HasPlayedAt)
        rows == [i \in DOMAIN dated |-> PlayRow(dated[i])]
        kept == {i \in DOMAIN rows :
                    \A j \in DOMAIN rows : rows[j].played_at = rows[i].played_at => j <= i}
        \* the i-th kept index, in increasing order
        nth[n \in 1..Cardinality(kept)] ==
            CHOOSE i \in kept : Cardinality({j \in kept : j <= i}) = n
    IN  [n \in 1..Cardinality(kept) |-> rows[nth[n]]]

\* variant: a plain insert, without the conflict clause
UpsertPlay_insert(tbl, row) == tbl \cup {row}

\* insert, or replace the row that has the same played_at
UpsertPlay(tbl, row) == {r \in tbl : r.played_at # row.played_at} \cup {row}

RECURSIVE upsertPlayEvents(_, _)
upsertPlayEvents(tbl, rows) ==
    IF rows = <<>> THEN tbl
    ELSE upsertPlayEvents(UpsertPlay(tbl, Head(rows)), Tail(rows))

IngestPlays ==
    /\ clock < MaxClock
    /\ clock' = clock + 1
    /\ \E response \in PlayResponses :
         /\ plays' = upsertPlayEvents(plays, transform(response))
         /\ run' = [NoRun EXCEPT !.kind = "plays", !.now = clock + 1,
                                 !.response = Some(response), !.committed = TRUE]
    /\ UNCHANGED <<raw, artists>>

NextPlays == IngestPlays

SpecPlays == Init /\ [][NextPlays]_vars

(***************************************************************************)
(* parse_artist_data on its own, on entities with up to MaxImages images.  *)
(* The image at position i has the url i or none, and a height or none.    *)
(***************************************************************************)
ImageHeights == Opt({64, 300})

ImageLists ==
    UNION {{[i \in 1..k |-> [url |-> IF i \in U THEN None ELSE Some(i),
                             height |-> h[i]]]
               : h \in [1..k -> ImageHeights], U \in SUBSET (1..k)}
             : k \in 0..MaxImages}

ParseEntities ==
    {[id |-> Some(1), name |-> Some(1), images |-> imgs, spotify |-> Some(1),
      genres |-> Some(<<1>>), popularity |-> Some(50)] : imgs \in ImageLists}

ParseArtistData ==
    /\ run.kind = "none"
    /\ \E artist \in ParseEntities :
         run' = [NoRun EXCEPT !.kind = "parse_artist_data",
                              !.replies = <<[ok |-> TRUE, artists |-> <<artist>>]>>,
                              !.all_artists = <<parse_artist_data(artist)>>]
    /\ UNCHANGED <<raw, artists, plays, clock>>

NextParse == ParseArtistData

SpecParse == Init /\ [][NextParse]_vars

(***************************************************************************)
(* Properties                                                              *)
(***************************************************************************)
\* a run of the fetch-and-store command that reached save_response
SaveRun(r) == r.kind = "fetch" /\ r.response # None /\ r.fault.step # "config"

\* a batch lookup of the run failed
BatchFailed(r) == \E i \in DOMAIN r.replies : ~r.replies[i].ok

C2_RawAppendOnly ==
    [][IF SaveRun(run') /\ run'.committed
       THEN raw' = raw \o <<[collected_at |-> run'.now,
                            payload |-> [items |-> run'.response[1].items]]>>
       ELSE raw' = raw]_vars

\* the same non-empty response stored by two runs: two rows
C2_Witness ==
    /\ Len(raw) = 2
    /\ raw[1].payload = raw[2].payload
    /\ raw[1].payload.items # <<>>
    /\ raw[1].collected_at # raw[2].collected_at

\* the ids of the first artists of a response's items
FirstArtistIds(response) ==
    {it.artists[1].id[1] :
        it \in {x \in Range(response.items) : x.artists # <<>> /\ x.artists[1].id # None}}

\* C4: in a fetch-and-store run that read the existing artist ids, the ids
\* handed to the fetcher are the first-artist ids of the response minus the
\* ids in the artist table, each once, and so are the ids of its lookup
\* calls; when all referenced ids are present no lookup call is made.
C4_ModeAFetchSet ==
    [][(SaveRun(run') /\ run'.fault.step \notin {"connect", "select"}) =>
         LET referenced == FirstArtistIds(run'.response[1])
             present == DOMAIN artists
         IN  /\ Range(run'.fetch_ids) = referenced \ present
             /\ Len(run'.fetch_ids) = Cardinality(referenced \ present)
             /\ run'.fetched <=> (referenced \ present # {})
             /\ Range(Concat(run'.calls)) = referenced \ present
             /\ (referenced \subseteq present => run'.calls = <<>>)]_vars

\* a run whose response refers to two artists of which one was present
C4_Witness ==
    /\ SaveRun(run) /\ run.committed
    /\ Cardinality(FirstArtistIds(run.response[1])) = 2
    /\ Len(run.fetch_ids) = 1
    /\ Len(run.calls) = 1

\* a backfill run that got as far as computing its fetch set
BackfillRead(r) == r.kind = "backfill" /\ (r.exit = 0 \/ r.fetched)

NullMetadataIds(tbl) ==
    {k \in DOMAIN tbl : tbl[k].image_url = None \/ tbl[k].genres = None
                        \/ tbl[k].popularity = None}

LogFirstArtistIds(log) == UNION {FirstArtistIds(log[i].payload) : i \in DOMAIN log}

\* C5: the fetch set of a backfill run is the ids of the artist rows with a
\* null image_url, genres or popularity, together with the first-artist ids
\* of the raw-payload log that have no artist row.
C5_ModeBFetchSet ==
    [][BackfillRead(run') =>
         Range(run'.fetch_ids) =
             NullMetadataIds(artists) \cup (LogFirstArtistIds(raw) \ DOMAIN artists)]_vars

\* the records a committed run upserted
Upserted(r) == IF r.committed THEN r.all_artists ELSE <<>>

\* the last record of arts for artist k
LastFor(arts, k) ==
    arts[CHOOSE i \in DOMAIN arts :
            /\ arts[i].artist_id = Some(k)
            /\ \A j \in DOMAIN arts : arts[j].artist_id = Some(k) => j <= i]

\* C8: an upsert never changes the first_seen_at of a row that exists, sets
\* it to the time of the call on insert, and gives every upserted row the
\* name, image, url, genres and popularity of the new record with
\* last_updated_at and updated_at at the time of the call; rows that are not
\* upserted stay as they are.
C8_UpsertKeepsFirstSeen ==
    [][/\ DOMAIN artists \subseteq DOMAIN artists'
       /\ \A k \in DOMAIN artists' :
            LET row == artists'[k]
                hit == \E i \in DOMAIN Upserted(run') :
                          Upserted(run')[i].artist_id = Some(k)
            IN  /\ row.first_seen_at = IF k \in DOMAIN artists
                                       THEN artists[k].first_seen_at ELSE run'.now
                /\ hit => LET a == LastFor(Upserted(run'), k)
                          IN  /\ row.artist_name = a.artist_name
                              /\ row.image_url = a.image_url
                              /\ row.spotify_url = a.spotify_url
                              /\ row.genres = a.genres
                              /\ row.popularity = a.popularity
                              /\ row.last_updated_at = run'.now
                              /\ row.updated_at = run'.now
                /\ ~hit => (k \in DOMAIN artists /\ row = artists[k])]_vars

\* a row inserted by one run and overwritten, name included, by a later one
C8_Witness ==
    \E k \in DOMAIN artists :
        /\ artists[k].first_seen_at = 1
        /\ artists[k].last_updated_at = 2
        /\ artists[k].updated_at = 2
        /\ artists[k].artist_name = Some(1)
        /\ artists[k].image_url # None
        /\ run.kind = "backfill" /\ run.committed

\* the entities a run got from the lookups that succeeded
Returned(r) == Concat([i \in DOMAIN r.replies |-> r.replies[i].artists])

C10_ErrorsAbort ==
    /\ (run.kind \in {"fetch", "backfill"}
          /\ (run.fault.step = "config" \/ run.store_error))
         => (run.exit = 1 /\ run.message)
    /\ (run.kind \in {"fetch", "backfill"} /\ BatchFailed(run)
          /\ run.fault = NoFault)
         => run.exit = 0

\* a run of the fetcher or of the backfill loop on its own
FetcherRun(r) == r.kind \in {"fetch_artist_metadata", "backfill_loop"}

\* C6: the lookup calls of the fetcher, and of the backfill loop around it,
\* carry consecutive chunks of the id list: each call has 1 to 50 ids, every
\* call but the last has 50, the calls concatenated are the list, there are
\* ceil(n/50) of them and none for the empty list.
C6_CallsAreChunks ==
    FetcherRun(run) =>
        LET n == Len(run.fetch_ids)
        IN  /\ \A i \in DOMAIN run.calls :
                  /\ 1 <= Len(run.calls[i]) /\ Len(run.calls[i]) <= 50
                  /\ i < Len(run.calls) => Len(run.calls[i]) = 50
            /\ Concat(run.calls) = run.fetch_ids
            /\ Len(run.calls) = (n + 49) \div 50
            /\ n = 0 => run.calls = <<>>

\* 51 ids handed to the backfill loop: calls of 50 and 1
C6_Witness ==
    /\ run.kind = "backfill_loop"
    /\ Len(run.fetch_ids) = 51
    /\ Len(run.calls) = 2
    /\ Len(run.calls[1]) = 50 /\ Len(run.calls[2]) = 1

\* the id-bearing entities among ents, in order
EntityHasId(e) == e.id # None

WithId(ents) == SelectSeq(ents, EntityHasId)

C3_PlayEventsLastWins ==
    [][run'.kind = "plays" =>
         LET items == run'.response[1].items
             dated == {i \in DOMAIN items : items[i].played_at # None}
             dates == {items[i].played_at[1] : i \in dated}
             last(p) == CHOOSE i \in dated :
                           /\ items[i].played_at = Some(p)
                           /\ \A j \in dated : items[j].played_at = Some(p) => j <= i
         IN  /\ \A r1, r2 \in plays' : r1.played_at = r2.played_at => r1 = r2
             /\ \A p \in dates :
                   \E r \in plays' :
                       /\ r.played_at = p
                       /\ r.track_name = items[last(p)].track_name
                       /\ r.artist_names = ArtistNames(items[last(p)].artists)
             /\ {r \in plays' : r.played_at \notin dates}
                    = {r \in plays : r.played_at \notin dates}
             /\ (run.kind = "plays" /\ run.response = run'.response) => plays' = plays]_vars

\* a response with two items of one played_at and different track names,
\* ingested twice: one row, with the second item's track name
C3_Witness ==
    /\ run.kind = "plays" /\ clock = 2
    /\ Len(run.response[1].items) = 2
    /\ run.response[1].items[1].played_at = Some(1)
    /\ run.response[1].items[2].played_at = Some(1)
    /\ run.response[1].items[1].track_name = Some(1)
    /\ run.response[1].items[2].track_name = Some(2)
    /\ Cardinality(plays) = 1
    /\ \A r \in plays : r.played_at = 1 /\ r.track_name = Some(2)

\* the ids of the history pairs that have no artist row or a row with a null
\* image_url, genres or popularity
HistoryIdsNeedingMetadata(log, tbl) ==
    {p[2] : p \in {q \in HistoryPairs(log) :
                     q[2] \notin DOMAIN tbl \/ q[2] \in NullMetadataIds(tbl)}}

\* C11: a backfill run in preview mode makes no lookup call and leaves the
\* artist table and the raw-payload log as they were; when its reads
\* succeed it ends with status 0 having computed, from the store, the ids
\* that a run without the flag would fetch.
C11_DryRunWritesNothing ==
    [][(run'.kind = "backfill" /\ run'.dry_run) =>
         /\ raw' = raw /\ artists' = artists
         /\ run'.calls = <<>> /\ run'.replies = <<>> /\ run'.all_artists = <<>>
         /\ ~run'.fetched /\ ~run'.committed
         /\ run'.added = 0 /\ run'.updated = 0
         /\ run'.fault = NoFault =>
               /\ run'.exit = 0
               /\ Range(run'.fetch_ids) = HistoryIdsNeedingMetadata(raw, artists)]_vars

\* a preview run over a store whose log names an artist without a row and an
\* artist whose row lacks an image: both are in the fetch set, nothing is
\* looked up and the store is as the first run left it
C11_Witness ==
    /\ run.kind = "backfill" /\ run.dry_run /\ run.fault = NoFault
    /\ Len(run.fetch_ids) = 2
    /\ run.calls = <<>>
    /\ Len(raw) = 1
    /\ \E k \in DOMAIN artists : k \in Range(run.fetch_ids) /\ artists[k].image_url = None
    /\ \E k \in Range(run.fetch_ids) : k \notin DOMAIN artists

\* C12: parse_artist_data gives as image_url the url of the image with the
\* greatest height (an image without a height counts as height 0), of
\* several images of that height the one that comes first in the entity,
\* and null when the entity has no images.
C12_LargestFirstImage ==
    run.kind = "parse_artist_data" =>
        LET imgs == run.replies[1].artists[1].images
            h(i) == IF imgs[i].height = None THEN 0 ELSE imgs[i].height[1]
            image_url == run.all_artists[1].image_url
        IN  IF imgs = <<>> THEN image_url = None
            ELSE \E i \in DOMAIN imgs :
                    /\ \A j \in DOMAIN imgs : h(j) <= h(i)
                    /\ \A j \in DOMAIN imgs : j < i => h(j) < h(i)
                    /\ image_url = imgs[i].url

\* heights 64, 300, 300: the url of the second image is selected
C12_Witness ==
    /\ run.kind = "parse_artist_data"
    /\ LET imgs == run.replies[1].artists[1].images
       IN  /\ Len(imgs) = 3
           /\ imgs[1].height = Some(64) /\ imgs[2].height = Some(300)
           /\ imgs[3].height = Some(300)
           /\ imgs[2].url = Some(2) /\ imgs[3].url = Some(3)
    /\ run.all_artists[1].image_url = Some(2)

\* C13: the fetch set of a backfill run holds each artist id at most once,
\* whatever the raw-payload log holds, and so do the ids of its lookup calls.
C13_FetchSetHasNoDuplicates ==
    run.kind = "backfill" =>
        /\ Len(run.fetch_ids) = Cardinality(Range(run.fetch_ids))
        /\ Len(Concat(run.calls)) = Cardinality(Range(Concat(run.calls)))

====
